---- MODULE Spec2Model ----
(***************************************************************************)
(* A model of the marathon race crawler (lambda_function.py): the record   *)
(* identity test, the dedupe/filter/sort pass, the snapshot load and       *)
(* store, the extractors' name filter and the bounded crawl loop.          *)
(*                                                                         *)
(* Text is modelled as a tuple of one-character strings, so that lower-    *)
(* casing, trimming, whitespace collapsing and substring search are        *)
(* computed.  A start date text "YYYY-MM-DD" is the triple <<Y, M, D>> of  *)
(* its three digit groups (its text order is the triples' lexicographic    *)
(* order) and "" is <<>>.  Optional[T] is <<>> for None and <<v>> for a    *)
(* value v.                                                                *)
(***************************************************************************)
EXTENDS Integers, Sequences, FiniteSets, TLC

VARIABLES
    today,      \* _dedupe_and_filter: the reference date (a valid date triple)
    races,      \* _dedupe_and_filter: the input records, in input order
    unique,     \* _dedupe_and_filter: the working list when the loop ends
    filtered,   \* _dedupe_and_filter: the returned list
    s3_object,  \* the snapshot object under (bucket, key): None, or its JSON document
    existing,   \* load_existing_races: the list it returned last
    fetched_url, \* the extractors: the URL of the page given
    page,       \* the extractors: the page given, its JSON-LD items or its lines
    extracted,  \* the extractors: the records returned
    max_pages,  \* crawl_sources: its max_pages
    queue,      \* crawl_sources: its queue
    visited,    \* crawl_sources: its visited
    crawled,    \* crawl_sources: its races
    fetches,    \* crawl_sources: the URLs _fetch_url was called with, in order
    response,   \* crawl_sources: the response to the last fetch, None for none
    crawl,      \* crawl_sources: "loop" in its loop, "returned", or "raised"
    handler     \* lambda_handler: each invocation's place and local values

dedupeVars == <<today, races, unique, filtered>>
snapshotVars == <<s3_object, existing>>
extractVars == <<fetched_url, page, extracted>>
crawlVars == <<max_pages, queue, visited, crawled, fetches, response, crawl>>
handlerVars == <<handler>>
vars == <<dedupeVars, snapshotVars, extractVars, crawlVars, handlerVars>>

-----------------------------------------------------------------------------
(* Python values *)

None == <<>>
Some(v) == <<v>>

\* Python truthiness of an Optional[str] whose text is a tuple: None and ""
\* are falsy.
Truthy(o) == o # None /\ o[1] # <<>>

\* Python truthiness of an Optional[str] whose text is a TLA+ string.
TruthyStr(o) == o # None /\ o[1] # ""

Min(S) == CHOOSE x \in S : \A y \in S : x <= y
Abs(n) == IF n < 0 THEN -n ELSE n

-----------------------------------------------------------------------------
(* Text *)

UpperChars ==
    <<"A", "B", "C", "D", "E", "F", "G", "H", "I", "J", "K", "L", "M",
      "N", "O", "P", "Q", "R", "S", "T", "U", "V", "W", "X", "Y", "Z">>
LowerChars ==
    <<"a", "b", "c", "d", "e", "f", "g", "h", "i", "j", "k", "l", "m",
      "n", "o", "p", "q", "r", "s", "t", "u", "v", "w", "x", "y", "z">>

\* The characters of the model's texts, in code point order; "EN_DASH" and
\* "EM_DASH" are the characters U+2013 and U+2014.
AsciiOrder ==
    <<"\t", " ", "\"", "'", "(", ")", ",", "-", ".", "/", ":">>
    \o UpperChars \o <<"\\">> \o LowerChars \o <<"{", "|", "}", "EN_DASH", "EM_DASH">>

Range(s) == {s[i] : i \in DOMAIN s}

\* ord(c), up to an order-preserving renumbering.
Ord == [c \in Range(AsciiOrder) |-> CHOOSE i \in DOMAIN AsciiOrder : AsciiOrder[i] = c]

\* str.lower() on one character.
LowerChar ==
    [c \in Range(AsciiOrder) |->
        IF \E i \in DOMAIN UpperChars : UpperChars[i] = c
        THEN LowerChars[CHOOSE i \in DOMAIN UpperChars : UpperChars[i] = c]
        ELSE c]

\* str.lower()
Lower(s) == [i \in DOMAIN s |-> LowerChar[s[i]]]

\* The characters \s matches and str.strip() removes.
IsSpace(c) == c \in {" ", "\t"}

\* str.strip()
RECURSIVE LStrip(_)
LStrip(s) == IF s # <<>> /\ IsSpace(Head(s)) THEN LStrip(Tail(s)) ELSE s
RECURSIVE RStrip(_)
RStrip(s) ==
    IF s # <<>> /\ IsSpace(s[Len(s)]) THEN RStrip(SubSeq(s, 1, Len(s) - 1)) ELSE s
Strip(s) == RStrip(LStrip(s))

\* re.sub(r"\s+", " ", s)
CollapseSpaces(s) ==
    LET first == SelectSeq([i \in DOMAIN s |-> i],
                           LAMBDA i : ~IsSpace(s[i]) \/ i = 1 \/ ~IsSpace(s[i - 1]))
    IN  [k \in DOMAIN first |-> IF IsSpace(s[first[k]]) THEN " " ELSE s[first[k]]]

\* needle in haystack
Contains(haystack, needle) ==
    \E i \in 1..(Len(haystack) - Len(needle) + 1) :
        SubSeq(haystack, i, i + Len(needle) - 1) = needle

\* The comparison of two tuples of numbers, as Python compares the texts or
\* tuples they stand for: lexicographic, a proper prefix first.
RECURSIVE LexLess(_, _)
LexLess(a, b) ==
    IF b = <<>> THEN FALSE
    ELSE IF a = <<>> THEN TRUE
    ELSE IF Head(a) # Head(b) THEN Head(a) < Head(b)
    ELSE LexLess(Tail(a), Tail(b))

\* A text as the tuple of its code points.
Codes(s) == [i \in DOMAIN s |-> Ord[s[i]]]

-----------------------------------------------------------------------------
(* Dates *)

IsLeap(y) == y % 4 = 0 /\ (y % 100 # 0 \/ y % 400 = 0)

DaysInMonth(y, m) ==
    IF m = 2 THEN (IF IsLeap(y) THEN 29 ELSE 28)
    ELSE IF m \in {4, 6, 9, 11} THEN 30 ELSE 31

RECURSIVE DaysBeforeMonth(_, _)
DaysBeforeMonth(y, m) ==
    IF m <= 1 THEN 0 ELSE DaysBeforeMonth(y, m - 1) + DaysInMonth(y, m - 1)

\* date(y, m, d) exists
IsValidDate(t) ==
    /\ Len(t) = 3
    /\ t[1] \in 1..9999
    /\ t[2] \in 1..12
    /\ t[3] \in 1..DaysInMonth(t[1], t[2])

\* date.toordinal()
ToOrdinal(t) ==
    LET y == t[1] - 1
    IN  y * 365 + (y \div 4) - (y \div 100) + (y \div 400)
        + DaysBeforeMonth(t[1], t[2]) + t[3]

\* _safe_date: None for None, "" and a text date.fromisoformat rejects, else
\* the date (its ordinal).
_safe_date(value) ==
    IF ~Truthy(value) THEN None
    ELSE IF IsValidDate(value[1]) THEN Some(ToOrdinal(value[1]))
    ELSE None

\* _dates_within_one_day allowing two days.
_dates_within_two_days(left, right) ==
    LET left_date == _safe_date(left)
        right_date == _safe_date(right)
    IN  IF left_date = None \/ right_date = None THEN FALSE
        ELSE Abs(left_date[1] - right_date[1]) <= 2

\* _dates_within_one_day
_dates_within_one_day(left, right) ==
    LET left_date == _safe_date(left)
        right_date == _safe_date(right)
    IN  IF left_date = None \/ right_date = None THEN FALSE
        ELSE Abs(left_date[1] - right_date[1]) <= 1

-----------------------------------------------------------------------------
(* Race records and their identity *)

\* _normalize_text
_normalize_text(value) ==
    IF ~Truthy(value) THEN None
    ELSE Some(CollapseSpaces(Lower(Strip(value[1]))))

\* _domain_from_url: urlparse(url).netloc.lower(); a URL is held parsed, as
\* [scheme, netloc, path], and "" is the URL whose three parts are empty.
_domain_from_url(url) == Lower(url.netloc)

EmptyUrl == [scheme |-> "", netloc |-> <<>>, path |-> <<>>]

\* _is_same_race
_is_same_race(left, right) ==
    LET name_left == _normalize_text(Some(left.name))
        name_right == _normalize_text(Some(right.name))
        city_left == _normalize_text(left.city)
        city_right == _normalize_text(right.city)
        country_left == _normalize_text(left.country)
        country_right == _normalize_text(right.country)
        domain_left == _domain_from_url(left.website_url)
        domain_right == _domain_from_url(right.website_url)
    IN  IF ~Truthy(name_left) \/ ~Truthy(name_right) \/ name_left # name_right
        THEN FALSE
        ELSE IF Truthy(city_left) /\ Truthy(city_right) /\ city_left # city_right
        THEN FALSE
        ELSE IF Truthy(country_left) /\ Truthy(country_right)
                /\ country_left # country_right
        THEN FALSE
        ELSE IF domain_left # <<>> /\ domain_right # <<>>
                /\ domain_left # domain_right
        THEN FALSE
        ELSE IF Truthy(left.date_start) /\ Truthy(right.date_start)
        THEN _dates_within_one_day(left.date_start, right.date_start)
        ELSE TRUE

-----------------------------------------------------------------------------
(* _dedupe_and_filter *)

\* MergeInto taking the incoming website_url whenever there is one.
MergeInto_AnyUrl(present, race) ==
    [present EXCEPT
        !.last_seen_at = race.last_seen_at,
        !.last_verified_at =
            IF TruthyStr(race.last_verified_at) THEN race.last_verified_at ELSE @,
        !.website_url = IF race.website_url # EmptyUrl THEN race.website_url ELSE @]

\* MergeInto also filling the kept record's location from the incoming one.
MergeInto_FillPlace(present, race) ==
    [present EXCEPT
        !.last_seen_at = race.last_seen_at,
        !.last_verified_at =
            IF TruthyStr(race.last_verified_at) THEN race.last_verified_at ELSE @,
        !.website_url =
            IF present.website_url = EmptyUrl /\ race.website_url # EmptyUrl
            THEN race.website_url ELSE @,
        !.city = IF ~Truthy(@) THEN race.city ELSE @,
        !.region = IF ~Truthy(@) THEN race.region ELSE @,
        !.country = IF ~Truthy(@) THEN race.country ELSE @]

\* MergeInto also taking the incoming start date.
MergeInto_TakeDate(present, race) ==
    [present EXCEPT
        !.last_seen_at = race.last_seen_at,
        !.last_verified_at =
            IF TruthyStr(race.last_verified_at) THEN race.last_verified_at ELSE @,
        !.website_url =
            IF present.website_url = EmptyUrl /\ race.website_url # EmptyUrl
            THEN race.website_url ELSE @,
        !.date_start = race.date_start]

\* The three assignments to `existing` in the loop of _dedupe_and_filter.
MergeInto(present, race) ==
    [present EXCEPT
        !.last_seen_at = race.last_seen_at,
        !.last_verified_at =
            IF TruthyStr(race.last_verified_at) THEN race.last_verified_at ELSE @,
        !.website_url =
            IF present.website_url = EmptyUrl /\ race.website_url # EmptyUrl
            THEN race.website_url ELSE @]

\* FoldRace with the reference date taken a day early.
FoldRace_DayEarly(kept, race, ref) ==
    LET race_day == _safe_date(race.date_start)
        matches == {i \in DOMAIN kept : _is_same_race(kept[i], race)}
    IN  IF race_day # None /\ race_day[1] < ToOrdinal(ref) - 1 THEN kept
        ELSE IF matches # {}
        THEN [kept EXCEPT ![Min(matches)] = MergeInto(@, race)]
        ELSE Append(kept, race)

\* FoldRace comparing the record with the last kept record only.
FoldRace_LastOnly(kept, race, ref) ==
    LET race_day == _safe_date(race.date_start)
        matches == {i \in DOMAIN kept : i = Len(kept) /\ _is_same_race(kept[i], race)}
    IN  IF race_day # None /\ race_day[1] < ToOrdinal(ref) THEN kept
        ELSE IF matches # {}
        THEN [kept EXCEPT ![Min(matches)] = MergeInto(@, race)]
        ELSE Append(kept, race)

\* One iteration of `for race in races`: the past-date test, then the scan of
\* `unique` for the first equivalent record.
FoldRace(kept, race, ref) ==
    LET race_day == _safe_date(race.date_start)
        matches == {i \in DOMAIN kept : _is_same_race(kept[i], race)}
    IN  IF race_day # None /\ race_day[1] < ToOrdinal(ref) THEN kept
        ELSE IF matches # {}
        THEN [kept EXCEPT ![Min(matches)] = MergeInto(@, race)]
        ELSE Append(kept, race)

\* `unique` when the loop over `input` ends.
RECURSIVE Unique(_, _)
Unique(input, ref) ==
    IF input = <<>> THEN <<>>
    ELSE FoldRace(Unique(SubSeq(input, 1, Len(input) - 1), ref), input[Len(input)], ref)

\* The text the sort key puts in the date's place when the record has none.
NoDateKey == <<9999, 12, 31>>

\* key=lambda r: (r.date_start or "9999-12-31", r.name.lower())
SortKey(r) ==
    [date |-> IF Truthy(r.date_start) THEN r.date_start[1] ELSE NoDateKey,
     name |-> Codes(Lower(r.name))]

\* Python's order on the key tuples.
KeyLess(a, b) ==
    \/ LexLess(a.date, b.date)
    \/ a.date = b.date /\ LexLess(a.name, b.name)

\* sorted(): stable, so a record goes after the records whose key is not greater.
RECURSIVE Sorted(_)
Sorted(list) ==
    IF list = <<>> THEN <<>>
    ELSE LET front == Sorted(SubSeq(list, 1, Len(list) - 1))
             r == list[Len(list)]
             k == Cardinality({i \in DOMAIN front : ~KeyLess(SortKey(r), SortKey(front[i]))})
         IN  SubSeq(front, 1, k) \o <<r>> \o SubSeq(front, k + 1, Len(front))

_dedupe_and_filter(input, ref) == Sorted(Unique(input, ref))

-----------------------------------------------------------------------------
(* The records and dates the pass is run on *)

MaxRaces == 3

Race(name, date_start, date_end, city, region, country, website_url, last_seen_at, last_verified_at) ==
    [name |-> name, date_start |-> date_start, date_end |-> date_end,
     city |-> city, region |-> region, country |-> country,
     lat |-> None, lng |-> None, distance_km |-> "42.195",
     website_url |-> website_url, source |-> "Example",
     source_event_id |-> None, description |-> "",
     entry_requirements |-> "Not specified",
     last_seen_at |-> last_seen_at, last_verified_at |-> last_verified_at,
     status |-> "unknown"]

MonthNames == <<"Jan", "Feb", "Mar", "Apr", "May", "Jun", "Jul", "Aug", "Sep", "Oct", "Nov", "Dec">>

\* _normalize_date.  A raw date is None, a text of the shape
\* \d{4}-\d{2}-\d{2} (a triple), or a text "Mon D, YYYY" (<<month, D, ",", YYYY>>
\* with the month's name first).  Of the first shape it is the ISO date when
\* date.fromisoformat accepts it, and otherwise the regular expression's
\* group, which is the same text, whether or not it is a calendar date; of
\* the second it is the date strptime reads, None when it reads none.
_normalize_date(raw) ==
    IF ~Truthy(raw) THEN None
    ELSE IF Len(raw[1]) = 3
    THEN (IF IsValidDate(raw[1]) THEN Some(raw[1]) ELSE Some(raw[1]))
    ELSE LET months == {m \in DOMAIN MonthNames : MonthNames[m] = raw[1][1]}
         IN  IF months = {} THEN None
             ELSE LET t == <<raw[1][4], Min(months), raw[1][2]>>
                  IN  IF IsValidDate(t) THEN Some(t) ELSE None

Url(scheme, netloc, path) == [scheme |-> scheme, netloc |-> netloc, path |-> path]
UrlA == Url("https", <<"A", ".", "e", "x">>, <<"/", "m">>)
UrlALower == Url("http", <<"a", ".", "e", "x">>, <<"/">>)
UrlB == Url("https", <<"b", ".", "e", "x">>, <<"/">>)
UrlNoHost == Url("", <<>>, <<"a", ".", "e", "x">>)

NameCM == <<"C", " ", "M">>
NameCMSpaced == <<" ", "c", " ", "\t", "M", " ">>
NameDM == <<"D", " ", "M">>

Todays == {<<2030, 2, 27>>, <<2030, 2, 28>>}

\* Start dates: absent, empty, around the reference dates and across the end
\* of February, a text that is no calendar date, and the last date there is.
StartDates ==
    {None, Some(<<>>)} \cup
    {_normalize_date(Some(t)) :
        t \in {<<2030, 2, 27>>, <<2030, 2, 28>>, <<2030, 3, 1>>, <<2030, 2, 30>>,
               <<9999, 12, 31>>}}

ByDate ==
    {Race(NameCM, d, None, None, None, None, UrlA, "t1", None) : d \in StartDates}

ByName ==
    {Race(n, Some(<<2030, 3, 1>>), None, None, None, None, UrlA, "t1", None) :
        n \in {NameCM, NameCMSpaced, NameDM, <<>>, <<" ">>}}
    \cup {Race(NameCM, None, None, None, None, None, UrlA, "t2", None)}

ByPlace ==
    {Race(NameCM, Some(<<2030, 3, 1>>), None, c[1], None, c[2], UrlA, c[3], None) :
        c \in {<<None, None, "t1">>,
               <<Some(<<"B">>), Some(<<"U", "S">>), "t2">>,
               <<Some(<<" ", "b">>), None, "t3">>,
               <<Some(<<"P">>), Some(<<"u", "s">>), "t4">>,
               <<Some(<<>>), Some(<<"F", "R">>), "t5">>,
               <<None, Some(<<"U", "S">>), "t6">>}}

ByWeb ==
    {Race(NameCM, None, None, None, None, None, w[1], w[2], w[3]) :
        w \in {<<EmptyUrl, "t1", None>>,
               <<UrlA, "t2", Some("v2")>>,
               <<UrlALower, "t3", Some("")>>,
               <<UrlB, "t4", Some("v4")>>,
               <<EmptyUrl, "t5", Some("v5")>>,
               <<UrlNoHost, "t6", None>>,
               <<UrlB, "t7", None>>}}

ByFrame ==
    {Race(f[1], f[2], f[3], f[4], f[5], f[6], EmptyUrl, f[7], None) :
        f \in {<<NameCM, Some(<<2030, 2, 28>>), None, Some(<<"B">>), None, None, "t1">>,
               <<NameCMSpaced, Some(<<2030, 3, 1>>), Some(<<2030, 3, 2>>),
                 Some(<<"b">>), Some(<<"M", "A">>), Some(<<"U", "S">>), "t2">>,
               <<Lower(NameCM), None, Some(<<2030, 3, 1>>), None, Some(<<"N", "Y">>),
                 Some(<<"u", "s">>), "t3">>,
               <<NameCM, Some(<<2030, 3, 2>>), None, None, None, None, "t4">>,
               <<NameDM, Some(<<2030, 3, 1>>), None, Some(<<"B">>), None, None, "t5">>}}

BySort ==
    {Race(k[1], k[2], None, None, None, None, UrlA, "t1", None) :
        k \in {<<<<"B">>, None>>, <<<<"a">>, None>>,
               <<<<"b">>, Some(<<9999, 12, 31>>)>>, <<<<"a">>, Some(<<2030, 3, 1>>)>>,
               <<<<"B">>, Some(<<2030, 3, 1>>)>>, <<<<"C">>, Some(<<2030, 2, 28>>)>>}}

\* One run's input is drawn from one family, so that the runs stay few.
Families == {ByDate, ByName, ByPlace, ByWeb, ByFrame, BySort}

RaceInputs == UNION Families

InputOK(input) == \E F \in Families : \A i \in DOMAIN input : input[i] \in F

-----------------------------------------------------------------------------
(* The snapshot: store_races, load_existing_races, _race_from_payload *)

MaxSnapshot == 2

\* str.split(","), then strip() of each part, empty parts dropped:
\* [p.strip() for p in text.split(",") if p.strip()]
RECURSIVE SplitComma(_)
SplitComma(text) ==
    LET commas == {i \in DOMAIN text : text[i] = ","}
    IN  IF commas = {} THEN <<text>>
        ELSE <<SubSeq(text, 1, Min(commas) - 1)>>
             \o SplitComma(SubSeq(text, Min(commas) + 1, Len(text)))

StripAll(parts) == [i \in DOMAIN parts |-> Strip(parts[i])]
NonEmpty(parts) == SelectSeq(parts, LAMBDA part : part # <<>>)
CommaParts(text) == NonEmpty(StripAll(SplitComma(text)))

AimsDomain == <<"a", "i", "m", "s", "-", "w", "o", "r", "l", "d", "r", "u", "n", "n", "i", "n", "g", ".", "o", "r", "g">>
AhotuDomain == <<"a", "h", "o", "t", "u", ".", "c", "o", "m">>
MajorsDomain == <<"w", "o", "r", "l", "d", "m", "a", "r", "a", "t", "h", "o", "n", "m", "a", "j", "o", "r", "s", ".", "c", "o", "m">>
UsaDomain == <<"r", "u", "n", "n", "i", "n", "g", "i", "n", "t", "h", "e", "u", "s", "a", ".", "c", "o", "m">>

\* _source_from_url; the label is a text, or the domain itself
_source_from_url(url) ==
    LET domain == _domain_from_url(url)
    IN  IF Contains(domain, AimsDomain) THEN "AIMS"
        ELSE IF Contains(domain, AhotuDomain) THEN "Ahotu"
        ELSE IF Contains(domain, MajorsDomain) THEN "World Marathon Majors"
        ELSE IF Contains(domain, UsaDomain) THEN "Running in the USA"
        ELSE IF domain # <<>> THEN domain ELSE "unknown"

\* _source_from_url(url) == "Ahotu": the second of its labels; a domain is in
\* lower case and so is never the label's text itself.
SourceIsAhotu(url) ==
    LET domain == _domain_from_url(url)
    IN  ~Contains(domain, AimsDomain) /\ Contains(domain, AhotuDomain)

\* The fields of Race that are Optional.
OptionalFields ==
    {"date_start", "date_end", "city", "region", "country", "lat", "lng",
     "source_event_id", "last_verified_at"}

JsonNull == [json |-> "null"]
JsonString(v) == [json |-> "string", value |-> v]
JsonNumber(v) == [json |-> "number", value |-> v]

\* json.dumps of one field's value: None is null, a float a number, a str a
\* string.
JsonDump(field, v) ==
    IF field \in OptionalFields /\ v = None THEN JsonNull
    ELSE IF field \in {"lat", "lng"} THEN JsonNumber(v[1])
    ELSE IF field = "distance_km" THEN JsonNumber(v)
    ELSE IF field \in OptionalFields THEN JsonString(v[1])
    ELSE JsonString(v)

\* json.loads of one field's value.
JsonLoad(field, j) ==
    IF j = JsonNull THEN None
    ELSE IF field \in OptionalFields THEN Some(j.value)
    ELSE j.value

\* Race.to_dict, as json.dumps writes it: every attribute under its name.
to_dict(r) == [field \in DOMAIN r |-> JsonDump(field, r[field])]

\* store_races: the document put under the key.
store_races(list, now) ==
    [generated_at |-> now,
     count |-> Len(list),
     races |-> [i \in DOMAIN list |-> to_dict(list[i])]]

\* item.get(key), as a Python value: None when the key is missing or null.
ItemGet(item, key) ==
    IF key \in DOMAIN item THEN JsonLoad("city", item[key]) ELSE None

\* x or default, for an optional text
OrElse(o, default) == IF Truthy(o) THEN o[1] ELSE default

\* _race_from_payload reading a document of the earlier format whatever the
\* item holds.
_race_from_payload_legacy(item, now) ==
    LET location == OrElse(ItemGet(item, "location"), <<>>)
        parts == CommaParts(location)
        source_url == IF "source_url" \in DOMAIN item /\ item.source_url # JsonNull
                      THEN item.source_url.value ELSE EmptyUrl
    IN  [name |-> OrElse(ItemGet(item, "name"), <<>>),
         date_start |-> ItemGet(item, "date"),
         date_end |-> None,
         city |-> IF Len(parts) >= 1 THEN Some(parts[1]) ELSE None,
         region |-> None,
         country |-> IF Len(parts) > 1 THEN Some(parts[Len(parts)]) ELSE None,
         lat |-> None, lng |-> None, distance_km |-> "42.195",
         website_url |-> source_url,
         source |-> _source_from_url(source_url),
         source_event_id |-> None,
         description |-> IF "description" \in DOMAIN item /\ item.description # JsonNull
                         /\ item.description.value # ""
                         THEN item.description.value ELSE "",
         entry_requirements |->
             IF "entry_requirements" \in DOMAIN item
                /\ item.entry_requirements # JsonNull
                /\ item.entry_requirements.value # ""
             THEN item.entry_requirements.value ELSE "Not specified",
         last_seen_at |-> now,
         last_verified_at |-> None,
         status |-> "unknown"]

\* _race_from_payload telling the formats apart by the key "date".
_race_from_payload_by_date(item, now) ==
    IF "date" \notin DOMAIN item
    THEN _race_from_payload_legacy(item, now)
    ELSE [field \in DOMAIN item |-> JsonLoad(field, item[field])]

\* _race_from_payload
_race_from_payload(item, now) ==
    IF "date_start" \in DOMAIN item
    THEN [field \in DOMAIN item |-> JsonLoad(field, item[field])]
    ELSE _race_from_payload_legacy(item, now)

\* load_existing_races when get_object answers: [] when there is no object
\* (NoSuchKey), else the records of the document's "races".
load_existing_races(object, now) ==
    IF object = None THEN <<>>
    ELSE LET payload == object[1]
         IN  [i \in DOMAIN payload.races |-> _race_from_payload(payload.races[i], now)]

\* The records a run may store.
SnapshotRaces ==
    {Race(NameCM, Some(<<2030, 3, 1>>), None, Some(<<"B">>), None, Some(<<"U", "S">>), UrlA, "t1", Some("v1")),
     Race(NameCMSpaced, Some(<<2030, 2, 30>>), Some(<<2030, 3, 1>>), Some(<<>>), Some(<<"M", "A">>), None, UrlB, "t3", Some("")),
     [Race(NameDM, Some(<<>>), None, None, None, None, EmptyUrl, "t4", None)
        EXCEPT !.lat = Some("48.85"), !.lng = Some("2.35"), !.source_event_id = Some("e1")]}

SnapshotLists ==
    UNION {[1..n -> SnapshotRaces] : n \in 0..MaxSnapshot}

\* A document of the earlier format: items with name, date, location,
\* source_url, and none with date_start.
LegacyItems ==
    {[name |-> JsonString(NameCM), date |-> JsonString(<<2030, 3, 1>>),
      location |-> JsonString(<<"B", ",", " ", "M", "A", ",", "U", "S">>),
      source_url |-> JsonString(Url("https", <<"m", ".">> \o AhotuDomain, <<"/">>)),
      description |-> JsonString("d"), entry_requirements |-> JsonNull],
     [name |-> JsonString(NameDM), date |-> JsonNull, location |-> JsonNull]}

LegacyDocuments ==
    {[generated_at |-> "g0", count |-> Len(items), races |-> items] :
        items \in UNION {[1..n -> LegacyItems] : n \in 1..2}}

Clock == {"g1", "g2"}


-----------------------------------------------------------------------------
(* The extractors' names: _clean_race_name, _is_full_marathon_name,
   _looks_like_json_fragment, _is_reasonable_name, _split_location_from_name,
   _extract_location_from_name_garbage *)

\* text.find(token), from 1; 0 when the token is not in the text
IndexOf(text, token) ==
    LET at == {i \in 1..(Len(text) - Len(token) + 1) :
                  SubSeq(text, i, i + Len(token) - 1) = token}
    IN  IF at = {} THEN 0 ELSE Min(at)

\* text.rfind(token), from 1; 0 when the token is not in the text
LastIndexOf(text, token) ==
    LET at == {i \in 1..(Len(text) - Len(token) + 1) :
                  SubSeq(text, i, i + Len(token) - 1) = token}
    IN  IF at = {} THEN 0 ELSE CHOOSE i \in at : \A j \in at : j <= i

\* text[from - 1 : to], a slice ending where the text ends
Slice(text, from, to) ==
    IF from > Len(text) \/ to < from THEN <<>>
    ELSE SubSeq(text, from, IF to > Len(text) THEN Len(text) ELSE to)

\* text.split(token, 1)[0]
Before(text, token) ==
    IF IndexOf(text, token) = 0 THEN text
    ELSE SubSeq(text, 1, IndexOf(text, token) - 1)

\* text.strip(chars)
RECURSIVE StripChars(_, _)
StripChars(text, chars) ==
    IF text # <<>> /\ Head(text) \in chars THEN StripChars(Tail(text), chars)
    ELSE IF text # <<>> /\ text[Len(text)] \in chars
    THEN StripChars(SubSeq(text, 1, Len(text) - 1), chars)
    ELSE text

\* text.replace(a, b), a and b single characters
ReplaceChar(text, a, b) == [i \in DOMAIN text |-> IF text[i] = a THEN b ELSE text[i]]

\* [0-9a-fA-F] among the model's characters
IsHexDigit(c) == c \in {"a", "b", "c", "d", "e", "f", "A", "B", "C", "D", "E", "F"}

\* re.sub(r"\\u[0-9a-fA-F]{4}", " ", text); no two matches overlap, a match
\* having its one backslash first.
DropUnicodeEscapes(text) ==
    LET starts == {i \in DOMAIN text :
                      /\ i + 5 <= Len(text)
                      /\ text[i] = "\\" /\ text[i + 1] = "u"
                      /\ \A j \in (i + 2)..(i + 5) : IsHexDigit(text[j])}
        left == SelectSeq([i \in DOMAIN text |-> i],
                          LAMBDA i : ~\E j \in starts : j < i /\ i <= j + 5)
    IN  [k \in DOMAIN left |-> IF left[k] \in starts THEN " " ELSE text[left[k]]]

\* re.sub(r"[\n\r\t]+", " ", text), "\t" being the one of the three characters
\* the model's texts have
TabRunsToSpace(text) ==
    LET first == SelectSeq([i \in DOMAIN text |-> i],
                           LAMBDA i : text[i] # "\t" \/ i = 1 \/ text[i - 1] # "\t")
    IN  [k \in DOMAIN first |-> IF text[first[k]] = "\t" THEN " " ELSE text[first[k]]]

RECURSIVE BeforeEach(_, _)
BeforeEach(text, tokens) ==
    IF tokens = <<>> THEN text
    ELSE BeforeEach(Before(text, Head(tokens)), Tail(tokens))

MaxNameLength == 120

\* if len(cleaned) > 120: cleaned = cleaned[:120].strip()
Truncated(cleaned) ==
    IF Len(cleaned) > MaxNameLength THEN Strip(SubSeq(cleaned, 1, MaxNameLength))
    ELSE cleaned

\* _clean_race_name; html.unescape changes no text of the model, none having
\* an "&".
_clean_race_name(raw) == Truncated(StripChars(CollapseSpaces(ReplaceChar(
    BeforeEach(BeforeEach(DropUnicodeEscapes(TabRunsToSpace(raw)),
                          <<<<"{">>, <<"}">>, <<"\"", ":">>, <<"\\", "\"">>>>),
               <<<<"\\", "\"", ",">>, <<"\"", ",">>>>),
    "\\", " ")), {" ", "\"", "'"}))

Marathon == <<"m", "a", "r", "a", "t", "h", "o", "n">>
HalfMarathon == <<"h", "a", "l", "f", " ", "m", "a", "r", "a", "t", "h", "o", "n">>
HalfMarathonHyphen == <<"h", "a", "l", "f", "-", "m", "a", "r", "a", "t", "h", "o", "n">>

\* _is_full_marathon_name, given the name lowered
IsFullMarathonLowered(lowered) ==
    IF ~Contains(lowered, Marathon) THEN FALSE
    ELSE IF Strip(lowered) = Marathon THEN FALSE
    ELSE ~Contains(lowered, HalfMarathon) /\ ~Contains(lowered, HalfMarathonHyphen)

\* _is_full_marathon_name
_is_full_marathon_name(name) == IsFullMarathonLowered(Lower(name))

\* _looks_like_json_fragment
_looks_like_json_fragment(value) ==
    IF value = <<>> THEN FALSE
    ELSE \E token \in {<<"\\", "\"">>, <<"\"", ":">>, <<"{">>, <<"}">>,
                       <<"h", "a", "s", "s", "t", "r", "a", "v", "a">>, <<"h", "a", "s", "w", "m">>, <<"p", "h", "o", "t", "o", "s">>,
                       <<"l", "o", "c", "a", "t", "i", "o", "n", "\"", ":">>} :
            Contains(Lower(value), token)

MinLetters == 5

\* str.isalpha() of one character
IsAlpha(c) == c \in Range(UpperChars) \cup Range(LowerChars)

\* _is_reasonable_name
_is_reasonable_name(name) ==
    IF name = <<>> THEN FALSE
    ELSE IF \E i \in DOMAIN name : name[i] \in {"{", "}", ":", "\"", "\\"} THEN FALSE
    ELSE Cardinality({i \in DOMAIN name : IsAlpha(name[i])}) >= MinLetters

\* ", ".join(parts)
RECURSIVE JoinComma(_)
JoinComma(parts) ==
    IF parts = <<>> THEN <<>>
    ELSE IF Len(parts) = 1 THEN parts[1]
    ELSE parts[1] \o <<",", " ">> \o JoinComma(Tail(parts))

\* re.search(r"\(([^()]+)\)\s*$", name), given the name without the white
\* space it ends with and the place of its last "(": where the match starts,
\* 0 for no match
ParenStartAt(trimmed, open) ==
    IF /\ trimmed # <<>>
       /\ trimmed[Len(trimmed)] = ")"
       /\ open > 0
       /\ open + 1 < Len(trimmed)
       /\ \A i \in (open + 1)..(Len(trimmed) - 1) : trimmed[i] # ")"
    THEN open ELSE 0

ParenStartIn(trimmed) == ParenStartAt(trimmed, LastIndexOf(trimmed, <<"(">>))

ParenStart(name) == ParenStartIn(RStrip(name))

Separators == <<<<" ", "-", " ">>, <<" ", "EN_DASH", " ">>, <<" ", "EM_DASH", " ">>, <<" ", "|", " ">>>>

\* name.rsplit(sep, 1) at the place of the last sep: <<head, tail>>
SplitLast(name, sep, at) ==
    <<SubSeq(name, 1, at - 1), SubSeq(name, at + Len(sep), Len(name))>>

\* if "," in tail and "marathon" not in tail.lower()
TailIsLocation(tail) == Contains(tail, <<",">>) /\ ~Contains(Lower(tail), Marathon)

\* The loop over the separators of _split_location_from_name, from the k-th:
\* the name and the candidate it leaves.
RECURSIVE SplitAtSeparator(_, _)
SplitAtSeparator(name, k) ==
    IF k > Len(Separators) THEN [name |-> name, candidate |-> <<>>]
    ELSE IF /\ Contains(name, Separators[k])
            /\ TailIsLocation(SplitLast(name, Separators[k], LastIndexOf(name, Separators[k]))[2])
         THEN [name |-> Strip(SplitLast(name, Separators[k], LastIndexOf(name, Separators[k]))[1]),
               candidate |-> Strip(SplitLast(name, Separators[k], LastIndexOf(name, Separators[k]))[2])]
         ELSE SplitAtSeparator(name, k + 1)

\* if paren_match: the name and the candidate the parenthesis leaves
SplitByParen(name, trimmed, open) ==
    IF open > 0
    THEN [name |-> StripChars(SubSeq(name, 1, open - 1), {" ", "-", "EN_DASH", "EM_DASH", "|"}),
          candidate |-> Strip(SubSeq(trimmed, open + 1, Len(trimmed) - 1))]
    ELSE [name |-> name, candidate |-> <<>>]

\* if not candidate: for sep in ...
SplitBySeparator(taken) ==
    IF taken.candidate = <<>> THEN SplitAtSeparator(taken.name, 1) ELSE taken

\* if not candidate and "," in name, given the parts of the name
SplitByComma(taken, parts) ==
    IF /\ taken.candidate = <<>>
       /\ Contains(taken.name, <<",">>)
       /\ Len(parts) >= 3
       /\ Contains(Lower(parts[1]), Marathon)
    THEN [name |-> Strip(JoinComma(SubSeq(parts, 1, Len(parts) - 2))),
          candidate |-> JoinComma(SubSeq(parts, Len(parts) - 1, Len(parts)))]
    ELSE taken

\* The two returns of _split_location_from_name once there is a candidate,
\* given the candidate's parts.
SplitReturn(name, location_parts) ==
    IF Len(location_parts) < 2 THEN <<name, None, None>>
    ELSE <<name, Some(location_parts[1]), Some(location_parts[Len(location_parts)])>>

\* if not candidate: return name, None, None; and the returns after it
SplitLocated(taken) ==
    IF taken.candidate = <<>> THEN <<taken.name, None, None>>
    ELSE SplitReturn(taken.name, CommaParts(taken.candidate))

SplitCommaOf(taken) == SplitLocated(SplitByComma(taken, CommaParts(taken.name)))

\* _split_location_from_name: <<name, city, country>>
_split_location_from_name(name) ==
    IF name = <<>> THEN <<name, None, None>>
    ELSE SplitCommaOf(SplitBySeparator(SplitByParen(name, RStrip(name), ParenStart(name))))

\* An optional character of a pattern: the place after it.
SkipOptional(text, at, c) == IF at <= Len(text) /\ text[at] = c THEN at + 1 ELSE at

RECURSIVE SkipSpaces(_, _)
SkipSpaces(text, at) ==
    IF at <= Len(text) /\ IsSpace(text[at]) THEN SkipSpaces(text, at + 1) ELSE at

\* The value of the pattern below from the place of its quote: <<>> for no
\* value there, else <<group(1)>>.
LocationValueAt(rest, close) ==
    IF close > 1 THEN Some(SubSeq(rest, 1, close - 1)) ELSE None

LocationValueFrom(name, value_quote) ==
    IF value_quote <= Len(name) /\ name[value_quote] = "\""
    THEN LocationValueAt(Slice(name, value_quote + 1, Len(name)),
                         IndexOf(Slice(name, value_quote + 1, Len(name)), <<"\"">>))
    ELSE None

LocationValueAfterColon(name, colon) ==
    IF colon <= Len(name) /\ name[colon] = ":"
    THEN LocationValueFrom(name, SkipOptional(name, SkipSpaces(name, colon + 1), "\\"))
    ELSE None

LocationValueAfterKey(name, quote) ==
    IF quote <= Len(name) /\ name[quote] = "\""
    THEN LocationValueAfterColon(name, SkipOptional(name, quote + 1, "\\"))
    ELSE None

\* re.search(r"location\\?\"\\?:\s*\\?\"([^\"]+)\"", name, re.IGNORECASE) from
\* one place: <<>> for no match there, else <<group(1)>>.
LocationMatchAt(name, at) ==
    IF Lower(Slice(name, at, at + 7)) = <<"l", "o", "c", "a", "t", "i", "o", "n">>
    THEN LocationValueAfterKey(name, SkipOptional(name, at + 8, "\\"))
    ELSE None

\* The places of the name where the pattern matches.
LocationMatches(name) == {i \in DOMAIN name : LocationMatchAt(name, i) # None}

\* city, country of _extract_location_from_name_garbage, given the parts
GarbageParts(parts) ==
    <<Some(parts[1]), IF Len(parts) > 1 THEN Some(parts[Len(parts)]) ELSE None>>

\* if not value: return None, None
GarbageValue(value) ==
    IF value = <<>> THEN <<None, None>> ELSE GarbageParts(StripAll(SplitComma(value)))

\* if value.endswith("\\"): value = value[:-1]
GarbageStripped(stripped) ==
    GarbageValue(IF stripped # <<>> /\ stripped[Len(stripped)] = "\\"
                 THEN SubSeq(stripped, 1, Len(stripped) - 1) ELSE stripped)

GarbageAt(name, at) ==
    IF at = {} THEN <<None, None>>
    ELSE GarbageStripped(Strip(LocationMatchAt(name, Min(at))[1]))

\* _extract_location_from_name_garbage: <<city, country>>
_extract_location_from_name_garbage(name) == GarbageAt(name, LocationMatches(name))

-----------------------------------------------------------------------------
(* The extractors: _parse_jsonld and _parse_fallback_races.  A page is held
   as what the regular expressions and json.loads find in it: the JSON-LD
   items _walk_jsonld yields, each with its type, name, startDate, endDate
   and url and no description, location, eventStatus or identifier; and the
   text lines a date pattern matches, each as the date text and the text
   after it up to the end of the line. *)

\* _is_event
_is_event(item) == item.type \in {"Event", "SportsEvent"}

\* x or y, for None-or-value
Either(a, b) == IF Truthy(a) THEN a ELSE b

\* Race(...) of the extractors
ExtractedRace(name, date_start, date_end, city, country, website_url, source, now, verified) ==
    [name |-> name, date_start |-> date_start, date_end |-> date_end,
     city |-> city, region |-> None, country |-> country,
     lat |-> None, lng |-> None, distance_km |-> "42.195",
     website_url |-> website_url, source |-> source, source_event_id |-> None,
     description |-> "", entry_requirements |-> "Not specified",
     last_seen_at |-> now, last_verified_at |-> verified,
     status |-> "unknown"]

\* name, name_city, name_country of the extractors: of an Ahotu page the name
\* split, of another the name as it is
NameSplit(name, page_url) ==
    IF SourceIsAhotu(page_url) THEN _split_location_from_name(name)
    ELSE <<name, None, None>>

\* The Race _parse_jsonld builds.
JsonldBuilt(item, split, start_date, end_date, page_url, now) ==
    ExtractedRace(split[1], Either(start_date, end_date), end_date,
                  IF Truthy(split[2]) THEN split[2] ELSE None,
                  IF Truthy(split[3]) THEN split[3] ELSE None,
                  IF item.url # EmptyUrl THEN item.url ELSE page_url,
                  _source_from_url(page_url), now, Some(now))

\* The body of the loop of _parse_jsonld from the name on.
JsonldNamed(item, name, start_date, end_date, page_url, now) ==
    IF name = <<>> \/ ~_is_full_marathon_name(name) THEN <<>>
    ELSE IF ~Truthy(start_date) /\ ~Truthy(end_date) THEN <<>>
    ELSE <<JsonldBuilt(item, NameSplit(name, page_url), start_date, end_date, page_url, now)>>

\* The record _parse_jsonld appends for one item, <<>> when it appends none.
JsonldRace(item, page_url, now) ==
    IF ~_is_event(item) THEN <<>>
    ELSE JsonldNamed(item, _clean_race_name(item.name), _normalize_date(item.startDate),
                     _normalize_date(item.endDate), page_url, now)

\* _parse_jsonld
RECURSIVE _parse_jsonld(_, _, _)
_parse_jsonld(items, page_url, now) ==
    IF items = <<>> THEN <<>>
    ELSE _parse_jsonld(SubSeq(items, 1, Len(items) - 1), page_url, now)
         \o JsonldRace(items[Len(items)], page_url, now)

\* The Race _parse_fallback_races builds.
FallbackBuilt(split, garbage, normalized_date, page_url, now) ==
    ExtractedRace(split[1], normalized_date, None,
                  Either(garbage[1], split[2]), Either(garbage[2], split[3]),
                  page_url, _source_from_url(page_url), now, None)

\* The body of the loop of _parse_fallback_races from the name on.
FallbackNamed(raw_name, name, normalized_date, page_url, now) ==
    IF name = <<>> \/ ~_is_full_marathon_name(name) THEN <<>>
    ELSE IF _looks_like_json_fragment(name) THEN <<>>
    ELSE IF ~_is_reasonable_name(name) THEN <<>>
    ELSE IF ~Truthy(normalized_date) THEN <<>>
    ELSE <<FallbackBuilt(NameSplit(name, page_url),
                         _extract_location_from_name_garbage(raw_name),
                         normalized_date, page_url, now)>>

\* The match of a pattern in a line and the half marathon test on it.  The
\* match is the date text, white space and the name group, which is the rest
\* of the line when that has "marathon" in it, in any case, and is no longer
\* than the pattern's 120 characters either side of it.
FallbackMatched(lowered) ==
    Contains(lowered, Marathon) /\ ~Contains(lowered, HalfMarathon)

\* The record _parse_fallback_races appends for one match, <<>> when it
\* appends none.
FallbackRace(line, page_url, now) ==
    IF ~FallbackMatched(Lower(line.rest)) THEN <<>>
    ELSE FallbackNamed(line.rest, _clean_race_name(line.rest),
                       _normalize_date(Some(line.date)), page_url, now)

\* The matches of one pattern, line by line.
RECURSIVE FallbackPass(_, _, _, _)
FallbackPass(lines, iso, page_url, now) ==
    IF lines = <<>> THEN <<>>
    ELSE FallbackPass(SubSeq(lines, 1, Len(lines) - 1), iso, page_url, now)
         \o (IF (Len(lines[Len(lines)].date) = 3) = iso
             THEN FallbackRace(lines[Len(lines)], page_url, now) ELSE <<>>)

\* _parse_fallback_races: the ISO date pattern over every line, then the
\* month name pattern over every line.
_parse_fallback_races(lines, page_url, now) ==
    FallbackPass(lines, TRUE, page_url, now) \o FallbackPass(lines, FALSE, page_url, now)

MaxItems == 2

AhotuUrl == Url("https", <<"w", "w", "w", ".">> \o AhotuDomain, <<"/", "c">>)

PageUrls == {AhotuUrl, UrlA}

\* The names and line ends the pages carry.
PageNames ==
    {<<"C", "i", "t", "y", " ", "M", "a", "r", "a", "t", "h", "o", "n">>,
     <<"C", "i", "t", "y", " ", "H", "a", "l", "f", " ", "M", "a", "r", "a", "t", "h", "o", "n">>,
     <<"C", "i", "t", "y", " ", "h", "a", "l", "f", "-", "m", "a", "r", "a", "t", "h", "o", "n">>,
     <<"M", "a", "r", "a", "t", "h", "o", "n">>,
     <<"F", "u", "n", " ", "R", "u", "n">>,
     <<"C", "i", "t", "y", "\t", " ", "M", "a", "r", "a", "t", "h", "o", "n", " ", "'", "x", "'">>,
     <<"C", "i", "t", "y", " ", "M", "a", "r", "a", "t", "h", "o", "n", " ", "(", "P", "a", "r", "i", "s", ",", " ", "F", "R", ")">>,
     <<"C", "i", "t", "y", " ", "M", "a", "r", "a", "t", "h", "o", "n", " ", "(", "P", "a", "r", "i", "s", ")">>,
     <<"F", "u", "n", " ", "R", "u", "n", " ", "(", "M", "a", "r", "a", "t", "h", "o", "n", ",", " ", "F", "R", ")">>,
     <<"(", "C", "i", "t", "y", " ", "M", "a", "r", "a", "t", "h", "o", "n", ",", " ", "F", "R", ")">>,
     <<"C", "i", "t", "y", " ", "M", "a", "r", "a", "t", "h", "o", "n", " ", "-", " ", "P", "a", "r", "i", "s", ",", " ", "F", "R">>,
     <<"C", "i", "t", "y", " ", "M", "a", "r", "a", "t", "h", "o", "n", " ", "EM_DASH", " ", "P", "a", "r", "i", "s", ",", " ", "F", "R">>,
     <<"C", "i", "t", "y", " ", "M", "a", "r", "a", "t", "h", "o", "n", ",", " ", "P", "a", "r", "i", "s", ",", " ", "F", "R">>,
     <<"C", "i", "t", "y", " ", "M", "a", "r", "a", "t", "h", "o", "n", "\"", ",", "\"", "l", "o", "c", "a", "t", "i", "o", "n", "\"", ":", "\"", "C", "a", "i", "r", "o", ",", " ", "E", "G", "\"", ",", "\"", "p", "h", "o", "t", "o", "s", "\"", ":", "{">>,
     <<"C", "i", "t", "y", " ", "M", "a", "r", "a", "t", "h", "o", "n", "\\", "\"", ",", "\\", "\"", "l", "o", "c", "a", "t", "i", "o", "n", "\\", "\"", ":", "\\", "\"", "P", "a", "r", "i", "s", ",", " ", "F", "R", "\\", "\"">>,
     <<"m", "a", "r", "a", "t", "h", "o", "n", "\"", ",", "\"", "h", "a", "s", "S", "t", "r", "a", "v", "a", "\"", ":", "x">>,
     <<"R", "u", "n", " ", "M", "a", "r", "a", "t", "h", "o", "n", ":", " ", "C", "i", "t", "y">>,
     <<"a", " ", "M", "a", "r", "a", "t", "h", "o", "n", "\\", "u", "b", "a", "b", "e", "H", "a", "l", "f">>,
     [i \in 1..(MaxNameLength - 3) |-> "x"] \o <<" ", "M", "a", "r", "a", "t", "h", "o", "n">>}

\* The dates the pages carry, as written.
PageDates ==
    {<<2030, 3, 1>>, <<2030, 2, 30>>, <<"Jun", 3, ",", 2031>>, <<"Sept", 3, ",", 2031>>}

PageItems ==
    {[type |-> "Event", name |-> n, startDate |-> Some(<<2030, 3, 1>>), endDate |-> None,
      url |-> EmptyUrl] : n \in PageNames}
    \cup
    {[type |-> x[1], name |-> <<"C", "i", "t", "y", " ", "M", "a", "r", "a", "t", "h", "o", "n">>, startDate |-> x[2], endDate |-> x[3],
      url |-> x[4]] :
        x \in {<<"Place", Some(<<2030, 3, 1>>), None, EmptyUrl>>,
               <<"SportsEvent", None, Some(<<2030, 2, 30>>), UrlB>>,
               <<"Event", None, None, EmptyUrl>>,
               <<"Event", Some(<<"Jun", 3, ",", 2031>>), Some(<<>>), EmptyUrl>>}}

PageLines ==
    {[date |-> <<2030, 3, 1>>, rest |-> n] : n \in PageNames}
    \cup {[date |-> d, rest |-> <<"C", "i", "t", "y", " ", "M", "a", "r", "a", "t", "h", "o", "n">>] : d \in PageDates}

-----------------------------------------------------------------------------
(* crawl_sources and _should_visit_link.  A fetched page is held as what the
   extractors and _extract_links find in it: its JSON-LD items, its dated
   lines, and its links, each link joined to the page's URL and cut at "#"
   as _extract_links leaves it. *)

\* token in href.lower(); a scheme has none of the tokens in it, and none of
\* them has the "/" a path starts with.
HrefContains(href, token) ==
    Contains(Lower(href.netloc), token) \/ Contains(Lower(href.path), token)

\* _should_visit_link
_should_visit_link(base_domain, href) ==
    IF href.scheme # "" /\ href.scheme \notin {"http", "https"} THEN FALSE
    ELSE IF href.netloc # <<>> /\ href.netloc # base_domain THEN FALSE
    ELSE \E token \in {Marathon, <<"r", "a", "c", "e">>, <<"c", "a", "l", "e", "n", "d", "a", "r">>} : HrefContains(href, token)

\* The links of a page crawl_sources appends to the queue, in their order.
LinksToVisit(links, seen, base_domain) ==
    SelectSeq(links, LAMBDA link : link \notin seen /\ _should_visit_link(base_domain, link))

\* if not page_races: page_races = _parse_fallback_races(html, url)
OrFallback(page_races, html, url, now) ==
    IF page_races # <<>> THEN page_races ELSE _parse_fallback_races(html.lines, url, now)

\* page_races of crawl_sources
PageRaces(html, url, now) == OrFallback(_parse_jsonld(html.items, url, now), html, url, now)

MaxPages == 2
MaxSeeds == 2

RaceDomain == <<"r", ".", "e", "x">>
SeedUrl == Url("https", RaceDomain, <<"/", "r", "a", "c", "e">>)
LinkRace == Url("https", RaceDomain, <<"/", "r", "a", "c", "e", "/", "b">>)
LinkCalendar == Url("http", RaceDomain, <<"/", "C", "a", "l", "e", "n", "d", "a", "r">>)
LinkAbout == Url("https", RaceDomain, <<"/", "a", "b", "o", "u", "t">>)
LinkAway == Url("https", <<"o", ".", "e", "x">>, <<"/", "r", "a", "c", "e">>)
LinkUpper == Url("https", <<"R", ".", "e", "x">>, <<"/", "r", "a", "c", "e">>)
LinkMail == Url("mailto", <<>>, <<"r", "a", "c", "e">>)
LinkSpaced == Url("https", RaceDomain, <<"/", "r", "a", "c", "e", " ", "b">>)
LinkPdf == Url("https", RaceDomain, <<"/", "r", "a", "c", "e", ".", "p", "d", "f">>)

SeedLists ==
    UNION {[1..n -> {SeedUrl, LinkAway}] : n \in 0..MaxSeeds}

PageBodies ==
    {[items |-> <<>>, lines |-> <<>>],
     [items |-> <<>>, lines |-> <<[date |-> <<2030, 3, 1>>, rest |-> <<"C", "i", "t", "y", " ", "M", "a", "r", "a", "t", "h", "o", "n">>]>>],
     [items |-> <<[type |-> "Event", name |-> <<"T", "o", "w", "n", " ", "M", "a", "r", "a", "t", "h", "o", "n">>,
                  startDate |-> Some(<<2030, 3, 2>>), endDate |-> None, url |-> EmptyUrl]>>,
      lines |-> <<[date |-> <<2030, 3, 1>>, rest |-> <<"C", "i", "t", "y", " ", "M", "a", "r", "a", "t", "h", "o", "n">>]>>]}

PageLinks ==
    {<<>>,
     <<LinkRace, LinkCalendar>>,
     <<LinkAbout, LinkAway, LinkUpper, LinkMail, SeedUrl>>,
     <<LinkCalendar, LinkRace, LinkCalendar>>,
     <<LinkSpaced, LinkPdf>>}

\* What _fetch_url can give for a URL, the web being free to answer a
\* request with any page: a page's text.
Pages ==
    {[items |-> body.items, lines |-> body.lines, links |-> links] :
        body \in PageBodies, links \in PageLinks}

\* The Content-Type headers of the responses: none, two of HTML and one of
\* another kind.
ContentTypes ==
    {<<>>, <<"t", "e", "x", "t", "/", "h", "t", "m", "l", ";", " ", "c", "h", "a", "r", "s", "e", "t", "=", "u", "t", "f", "-", "8">>, <<"a", "p", "p", "l", "i", "c", "a", "t", "i", "o", "n", "/", "x", "h", "t", "m", "l", "+", "x", "m", "l">>, <<"a", "p", "p", "l", "i", "c", "a", "t", "i", "o", "n", "/", "p", "d", "f">>}

\* What urlopen and response.read() give _fetch_url when they raise nothing:
\* a Content-Type and a decoded body, None for the empty text and <<html>>
\* for a page's text.
Responses ==
    [content_type : ContentTypes, body : {None} \cup {Some(html) : html \in Pages}]

\* What a fetch can come to when urlopen raises nothing or raises what
\* _fetch_url catches (HTTPError, URLError, TimeoutError): None for the
\* errors caught, <<response>> otherwise.
Outcomes == {None} \cup {Some(r) : r \in Responses}

\* The test of _fetch_url for the line it logs: a Content-Type that is there
\* and has neither "text/html" nor "application/xhtml+xml" in it.
IsNonHtml(content_type) ==
    /\ content_type # <<>>
    /\ ~Contains(content_type, <<"t", "e", "x", "t", "/", "h", "t", "m", "l">>)
    /\ ~Contains(content_type, <<"a", "p", "p", "l", "i", "c", "a", "t", "i", "o", "n", "/", "x", "h", "t", "m", "l", "+", "x", "m", "l">>)

\* _fetch_url, given what urlopen came to: None for an error caught, and the
\* decoded body of a response, whatever its Content-Type
_fetch_url(outcome) ==
    IF outcome = None THEN None ELSE Some(outcome[1].body)

\* urlopen raises http.client.InvalidURL, which _fetch_url does not catch,
\* for a URL with a space in its path.
IsInvalidUrl(url) == \E i \in DOMAIN url.path : url.path[i] = " "

-----------------------------------------------------------------------------
(* lambda_handler, curated_major_marathons and the errors of get_object *)

\* MAJOR_MARATHONS
MAJOR_MARATHONS ==
    <<[name |-> <<"T", "o", "k", "y", "o", " ", "M", "a", "r", "a", "t", "h", "o", "n">>, website_url |-> Url("https", <<"w", "w", "w", ".", "t", "o", "k", "y", "o", "-", "m", "a", "r", "a", "t", "h", "o", "n", ".", "o", "r", "g">>, <<"/", "e", "n", "/">>)],
      [name |-> <<"B", "o", "s", "t", "o", "n", " ", "M", "a", "r", "a", "t", "h", "o", "n">>, website_url |-> Url("https", <<"w", "w", "w", ".", "b", "a", "a", ".", "o", "r", "g">>, <<"/">>)],
      [name |-> <<"L", "o", "n", "d", "o", "n", " ", "M", "a", "r", "a", "t", "h", "o", "n">>, website_url |-> Url("https", <<"w", "w", "w", ".", "l", "o", "n", "d", "o", "n", "m", "a", "r", "a", "t", "h", "o", "n", ".", "c", "o", ".", "u", "k">>, <<"/">>)],
      [name |-> <<"B", "e", "r", "l", "i", "n", " ", "M", "a", "r", "a", "t", "h", "o", "n">>, website_url |-> Url("https", <<"w", "w", "w", ".", "b", "m", "w", "-", "b", "e", "r", "l", "i", "n", "-", "m", "a", "r", "a", "t", "h", "o", "n", ".", "c", "o", "m">>, <<"/", "e", "n", "/">>)],
      [name |-> <<"C", "h", "i", "c", "a", "g", "o", " ", "M", "a", "r", "a", "t", "h", "o", "n">>, website_url |-> Url("https", <<"w", "w", "w", ".", "c", "h", "i", "c", "a", "g", "o", "m", "a", "r", "a", "t", "h", "o", "n", ".", "c", "o", "m">>, <<"/">>)],
      [name |-> <<"N", "e", "w", " ", "Y", "o", "r", "k", " ", "C", "i", "t", "y", " ", "M", "a", "r", "a", "t", "h", "o", "n">>, website_url |-> Url("https", <<"w", "w", "w", ".", "n", "y", "r", "r", ".", "o", "r", "g">>, <<"/", "t", "c", "s", "n", "y", "c", "m", "a", "r", "a", "t", "h", "o", "n">>)]>>

\* curated_major_marathons
curated_major_marathons(now) ==
    [i \in DOMAIN MAJOR_MARATHONS |->
        [Race(MAJOR_MARATHONS[i].name, None, None, None, None, None,
              MAJOR_MARATHONS[i].website_url, now, None)
            EXCEPT !.source = "World Marathon Majors"]]

\* The errors get_object raises: the Code of exc.response, None for an error
\* that has no response, and whether str(exc) has "NoSuchKey" in it, as it
\* has for the error of that code.
StorageErrors ==
    {[code |-> Some("NoSuchKey"), names_no_such_key |-> TRUE],
     [code |-> Some("404"), names_no_such_key |-> FALSE],
     [code |-> Some("NoSuchBucket"), names_no_such_key |-> FALSE],
     [code |-> Some("AccessDenied"), names_no_such_key |-> FALSE],
     [code |-> Some("SlowDown"), names_no_such_key |-> FALSE],
     [code |-> None, names_no_such_key |-> FALSE]}

\* The codes of an object that is not there.
MissingCodes == {"NoSuchKey", "404", "NoSuchBucket"}

\* The errors get_object can raise for the object: those of a missing object
\* when there is none, and the others whether or not there is one.
GetErrors(object) ==
    {error \in StorageErrors :
        error.code # None /\ error.code[1] \in MissingCodes => object = None}

\* The test of load_existing_races with every error taken for a missing object.
IsMissingObject_Always(exc) == TRUE

\* code in {"NoSuchKey", "404", "NoSuchBucket"} or "NoSuchKey" in str(exc)
IsMissingObject(exc) ==
    \/ exc.code # None /\ exc.code[1] \in MissingCodes
    \/ exc.names_no_such_key

\* The two simultaneous invocations.
Invocations == {"a", "b"}

\* Two races a crawl finds.
DiscoveredCity ==
    Race(<<"C", "i", "t", "y", " ", "M", "a", "r", "a", "t", "h", "o", "n">>, Some(<<2030, 3, 1>>), None, None, None, None, UrlA, "n1", Some("n1"))
DiscoveredTown ==
    Race(<<"T", "o", "w", "n", " ", "M", "a", "r", "a", "t", "h", "o", "n">>, Some(<<2030, 4, 1>>), None, None, None, None, UrlB, "n1", None)

\* What crawl_sources returns to an invocation.
DiscoveredLists == {<<>>, <<DiscoveredCity>>, <<DiscoveredTown>>}

\* An invocation before lambda_handler is called.
NotStarted ==
    [at |-> "start", existing |-> <<>>, discovered |-> <<>>, filtered |-> <<>>,
     loads |-> 0, passes |-> 0, stores |-> 0]

-----------------------------------------------------------------------------
(* The pass as a state machine: the caller's list grows by one record and
   _dedupe_and_filter is run on it *)

IdleDedupe ==
    /\ today = <<2030, 2, 27>>
    /\ races = <<>>
    /\ unique = <<>>
    /\ filtered = <<>>

IdleSnapshot ==
    /\ s3_object = None
    /\ existing = <<>>

IdleCrawl ==
    /\ max_pages = 0
    /\ queue = <<>>
    /\ visited = {}
    /\ crawled = <<>>
    /\ fetches = <<>>
    /\ response = None
    /\ crawl = "returned"

IdleHandler == handler = <<>>

IdleExtract ==
    /\ fetched_url = EmptyUrl
    /\ page = <<>>
    /\ extracted = <<>>

InitDedupe ==
    /\ today \in Todays
    /\ races = <<>>
    /\ unique = <<>>
    /\ filtered = <<>>
    /\ IdleSnapshot
    /\ IdleExtract
    /\ IdleCrawl
    /\ IdleHandler

\* filtered = _dedupe_and_filter(races + [race], today)
Dedupe(race) ==
    /\ Len(races) < MaxRaces
    /\ InputOK(Append(races, race))
    /\ races' = Append(races, race)
    /\ unique' = Unique(races', today)
    /\ filtered' = _dedupe_and_filter(races', today)
    /\ UNCHANGED <<today, snapshotVars, extractVars, crawlVars, handlerVars>>

NextDedupe == \E race \in RaceInputs : Dedupe(race)

SpecDedupe == InitDedupe /\ [][NextDedupe]_vars

-----------------------------------------------------------------------------
(* The snapshot as a state machine: the object is absent or of the earlier
   format at first; a run stores a list, a run loads, and a run stores what it
   loaded *)

InitSnapshot ==
    /\ IdleDedupe
    /\ s3_object \in {None} \cup {Some(d) : d \in LegacyDocuments}
    /\ existing = <<>>
    /\ IdleExtract
    /\ IdleCrawl
    /\ IdleHandler

\* store_races(s3_client, bucket, key, list)
StoreRaces(list, now) ==
    /\ s3_object' = Some(store_races(list, now))
    /\ UNCHANGED <<existing, dedupeVars, extractVars, crawlVars, handlerVars>>

\* existing = load_existing_races(s3_client, bucket, key)
LoadExistingRaces(now) ==
    /\ existing' = load_existing_races(s3_object, now)
    /\ UNCHANGED <<s3_object, dedupeVars, extractVars, crawlVars, handlerVars>>

\* store_races(s3_client, bucket, key, existing)
StoreLoaded(now) ==
    /\ s3_object' = Some(store_races(existing, now))
    /\ UNCHANGED <<existing, dedupeVars, extractVars, crawlVars, handlerVars>>

NextSnapshot ==
    \/ \E list \in SnapshotLists, now \in Clock : StoreRaces(list, now)
    \/ \E now \in Clock : LoadExistingRaces(now)
    \/ \E now \in Clock : StoreLoaded(now)

SpecSnapshot == InitSnapshot /\ [][NextSnapshot]_vars

-----------------------------------------------------------------------------
(* The extractors as a state machine: a page is given to one of them, item by
   item or line by line as the page grows *)

InitExtract ==
    /\ IdleDedupe
    /\ IdleSnapshot
    /\ IdleCrawl
    /\ IdleHandler
    /\ fetched_url \in PageUrls
    /\ page = <<>>
    /\ extracted = <<>>

\* extracted = _parse_jsonld(page + [item], fetched_url)
ParseJsonld(item) ==
    /\ Len(page) < MaxItems
    /\ \A i \in DOMAIN page : page[i] \in PageItems
    /\ page' = Append(page, item)
    /\ extracted' = _parse_jsonld(page', fetched_url, "n1")
    /\ UNCHANGED <<fetched_url, dedupeVars, snapshotVars, crawlVars, handlerVars>>

\* extracted = _parse_fallback_races(page + [line], fetched_url)
ParseFallbackRaces(line) ==
    /\ Len(page) < MaxItems
    /\ \A i \in DOMAIN page : page[i] \in PageLines
    /\ page' = Append(page, line)
    /\ extracted' = _parse_fallback_races(page', fetched_url, "n1")
    /\ UNCHANGED <<fetched_url, dedupeVars, snapshotVars, crawlVars, handlerVars>>

NextExtract ==
    \/ \E item \in PageItems : ParseJsonld(item)
    \/ \E line \in PageLines : ParseFallbackRaces(line)

SpecExtract == InitExtract /\ [][NextExtract]_vars

-----------------------------------------------------------------------------
(* crawl_sources as a state machine: one step is one pass of its loop, or its
   return *)

InitCrawl ==
    /\ IdleDedupe
    /\ IdleSnapshot
    /\ IdleExtract
    /\ max_pages \in 0..MaxPages
    /\ queue \in SeedLists
    /\ visited = {}
    /\ crawled = <<>>
    /\ fetches = <<>>
    /\ response = None
    /\ crawl = "loop"
    /\ IdleHandler

\* The condition of the loop with the bound itself allowed.
LoopCondition_Inclusive == queue # <<>> /\ Cardinality(visited) <= max_pages

\* while queue and len(visited) < max_pages
LoopCondition == queue # <<>> /\ Cardinality(visited) < max_pages

\* A pass that takes a URL already visited.
CrawlSkipVisited ==
    /\ crawl = "loop"
    /\ LoopCondition
    /\ Head(queue) \in visited
    /\ queue' = Tail(queue)
    /\ UNCHANGED <<max_pages, visited, crawled, fetches, response, crawl>>
    /\ UNCHANGED <<dedupeVars, snapshotVars, extractVars, handlerVars>>

\* A pass whose fetch gives None or an empty text: if not html: continue
CrawlFetchNothing(outcome) ==
    /\ crawl = "loop"
    /\ LoopCondition
    /\ Head(queue) \notin visited
    /\ ~IsInvalidUrl(Head(queue))
    /\ ~Truthy(_fetch_url(outcome))
    /\ queue' = Tail(queue)
    /\ visited' = visited \cup {Head(queue)}
    /\ fetches' = Append(fetches, Head(queue))
    /\ response' = outcome
    /\ UNCHANGED <<max_pages, crawled, crawl>>
    /\ UNCHANGED <<dedupeVars, snapshotVars, extractVars, handlerVars>>

\* The rest of a pass whose fetch gave a page's text.
CrawlPage(html) ==
    /\ crawled' = crawled \o PageRaces(html, Head(queue), "n1")
    /\ queue' = Tail(queue) \o LinksToVisit(html.links, visited', Head(queue).netloc)

\* A pass whose fetch gives a page's text.
CrawlFetchPage(outcome) ==
    /\ crawl = "loop"
    /\ LoopCondition
    /\ Head(queue) \notin visited
    /\ ~IsInvalidUrl(Head(queue))
    /\ Truthy(_fetch_url(outcome))
    /\ visited' = visited \cup {Head(queue)}
    /\ fetches' = Append(fetches, Head(queue))
    /\ response' = outcome
    /\ CrawlPage(_fetch_url(outcome)[1][1])
    /\ UNCHANGED <<max_pages, crawl>>
    /\ UNCHANGED <<dedupeVars, snapshotVars, extractVars, handlerVars>>

\* A pass whose fetch raises what _fetch_url does not catch: InvalidURL for
\* a URL that is invalid, and for any URL what response.read() can raise
\* (IncompleteRead, ConnectionResetError).
CrawlFetchRaises ==
    /\ crawl = "loop"
    /\ LoopCondition
    /\ Head(queue) \notin visited
    /\ queue' = Tail(queue)
    /\ visited' = visited \cup {Head(queue)}
    /\ fetches' = Append(fetches, Head(queue))
    /\ response' = None
    /\ crawl' = "raised"
    /\ UNCHANGED <<max_pages, crawled>>
    /\ UNCHANGED <<dedupeVars, snapshotVars, extractVars, handlerVars>>

\* return races
CrawlReturn ==
    /\ crawl = "loop"
    /\ ~LoopCondition
    /\ crawl' = "returned"
    /\ UNCHANGED <<max_pages, queue, visited, crawled, fetches, response>>
    /\ UNCHANGED <<dedupeVars, snapshotVars, extractVars, handlerVars>>

NextCrawl ==
    \/ CrawlSkipVisited
    \/ \E outcome \in Outcomes : CrawlFetchNothing(outcome)
    \/ \E outcome \in Outcomes : CrawlFetchPage(outcome)
    \/ CrawlFetchRaises
    \/ CrawlReturn

SpecCrawl == InitCrawl /\ [][NextCrawl]_vars

-----------------------------------------------------------------------------
(* lambda_handler as a state machine: two invocations on one key, each a
   process whose steps are its call of get_object, its compute pass
   (crawl_sources, curated_major_marathons, _dedupe_and_filter) and its call
   of put_object *)

InitHandler ==
    /\ IdleDedupe
    /\ s3_object \in {None, Some(store_races(<<DiscoveredTown>>, "n1"))}
    /\ existing = <<>>
    /\ IdleExtract
    /\ IdleCrawl
    /\ handler = [i \in Invocations |-> NotStarted]

\* An invocation that may call load_existing_races a second time.
CanLoad_Again(i) == handler[i].at \in {"start", "loaded"}

\* Where lambda_handler calls load_existing_races.
CanLoad(i) == handler[i].at = "start"

\* existing = load_existing_races(...), get_object answering with the object
HandlerLoad(i) ==
    /\ CanLoad(i)
    /\ s3_object # None
    /\ handler' = [handler EXCEPT ![i].at = "loaded", ![i].loads = @ + 1,
                                  ![i].existing = load_existing_races(s3_object, "n1")]
    /\ UNCHANGED <<dedupeVars, snapshotVars, extractVars, crawlVars>>

\* existing = load_existing_races(...), get_object raising: [] for a missing
\* object, and the error raised again for another
HandlerLoadError(i, exc) ==
    /\ CanLoad(i)
    /\ exc \in GetErrors(s3_object)
    /\ handler' = [handler EXCEPT ![i].at = IF IsMissingObject(exc) THEN "loaded" ELSE "load_raised",
                                  ![i].loads = @ + 1,
                                  ![i].existing = <<>>]
    /\ UNCHANGED <<dedupeVars, snapshotVars, extractVars, crawlVars>>

\* discovered = crawl_sources(...); curated = curated_major_marathons();
\* filtered = _dedupe_and_filter(existing + discovered + curated, today)
HandlerCompute(i, found) ==
    /\ handler[i].at = "loaded"
    /\ handler' = [handler EXCEPT ![i].at = "computed", ![i].passes = @ + 1,
                                  ![i].discovered = found,
                                  ![i].filtered = _dedupe_and_filter(
                                      handler[i].existing \o found \o curated_major_marathons("n1"),
                                      today)]
    /\ UNCHANGED <<dedupeVars, snapshotVars, extractVars, crawlVars>>

\* crawl_sources raising what _fetch_url does not catch
HandlerCrawlRaises(i) ==
    /\ handler[i].at = "loaded"
    /\ handler' = [handler EXCEPT ![i].at = "crawl_raised", ![i].passes = @ + 1]
    /\ UNCHANGED <<dedupeVars, snapshotVars, extractVars, crawlVars>>

\* store_races(s3_client, bucket, key, filtered), and the return
HandlerStore(i) ==
    /\ handler[i].at = "computed"
    /\ s3_object' = Some(store_races(handler[i].filtered, "n1"))
    /\ handler' = [handler EXCEPT ![i].at = "returned", ![i].stores = @ + 1]
    /\ UNCHANGED <<existing, dedupeVars, extractVars, crawlVars>>

\* put_object raising
HandlerStoreRaises(i) ==
    /\ handler[i].at = "computed"
    /\ handler' = [handler EXCEPT ![i].at = "store_raised", ![i].stores = @ + 1]
    /\ UNCHANGED <<dedupeVars, snapshotVars, extractVars, crawlVars>>

NextHandler ==
    \/ \E i \in Invocations : HandlerLoad(i)
    \/ \E i \in Invocations, exc \in StorageErrors : HandlerLoadError(i, exc)
    \/ \E i \in Invocations, found \in DiscoveredLists : HandlerCompute(i, found)
    \/ \E i \in Invocations : HandlerCrawlRaises(i)
    \/ \E i \in Invocations : HandlerStore(i)
    \/ \E i \in Invocations : HandlerStoreRaises(i)

SpecHandler == InitHandler /\ [][NextHandler]_vars

-----------------------------------------------------------------------------
(* Claims about _dedupe_and_filter and _is_same_race, under SpecDedupe *)

\* The record's start date is a calendar date before the reference date.
PastDated(r) ==
    /\ Truthy(r.date_start)
    /\ IsValidDate(r.date_start[1])
    /\ ToOrdinal(r.date_start[1]) < ToOrdinal(today)

LastRace == races[Len(races)]

Count(list, r) == Cardinality({i \in DOMAIN list : list[i] = r})

\* The two lists hold the same records the same number of times.
SameRecords(a, b) ==
    /\ Len(a) = Len(b)
    /\ \A i \in DOMAIN a : Count(a, a[i]) = Count(b, a[i])

Reorderings(list) ==
    {[i \in DOMAIN list |-> list[f[i]]] : f \in Permutations(DOMAIN list)}

\* C1: no returned record has a start date that is a calendar date strictly
\* before the reference date.
C1_NeverPastDated == \A i \in DOMAIN filtered : ~PastDated(filtered[i])

\* C1 witness: a past-dated record was given, and records were returned.
C1_Witness ==
    /\ \E i \in DOMAIN races : PastDated(races[i])
    /\ Len(filtered) >= 2

\* C2: giving the last record A (not past-dated, and named, as every record of
\* the extractors is) once more returns the same records as giving it once,
\* and [A, A] returns exactly one record.
C2_MergeIdempotent ==
    (/\ Len(races) >= 1
     /\ ~PastDated(LastRace)
     /\ Strip(LastRace.name) # <<>>) =>
        /\ SameRecords(_dedupe_and_filter(Append(races, LastRace), today), filtered)
        /\ Len(_dedupe_and_filter(<<LastRace, LastRace>>, today)) = 1

\* C3 as stated: the returned records do not depend on the input's order.
C3_OrderIndependent ==
    \A p \in Reorderings(races) :
        SameRecords(_dedupe_and_filter(p, today), filtered)

\* Any two input records that are not past-dated and are the same race are
\* equal in every field.
SameRaceOnlyIfEqual ==
    \A i, j \in DOMAIN races :
        (/\ i # j
         /\ ~PastDated(races[i]) /\ ~PastDated(races[j])
         /\ _is_same_race(races[i], races[j]))
        => races[i] = races[j]

\* C3 amended: the returned records do not depend on the input's order when
\* any two input records that are the same race are equal in every field.
C3_OrderIndependentAmongEqual ==
    SameRaceOnlyIfEqual =>
        \A p \in Reorderings(races) :
            SameRecords(_dedupe_and_filter(p, today), filtered)

\* C3 witness: three records, two of them equal and not adjacent, the third
\* another race; the duplicate was collapsed.
C3_Witness ==
    /\ Len(races) = 3
    /\ SameRaceOnlyIfEqual
    /\ races[1] = races[3]
    /\ races[1] # races[2]
    /\ Len(filtered) = 2

\* "After lower-casing, trimming and whitespace collapsing".
Normalized(text) == CollapseSpaces(Strip(Lower(text)))

\* An optional text that says something.
Specified(o) == o # None /\ Normalized(o[1]) # <<>>

\* "For each of city, country and website domain that both records specify,
\* the two values match".
BothOrMatch(a, b) == (Specified(a) /\ Specified(b)) => Normalized(a[1]) = Normalized(b[1])

\* "When both records specify a start date, the two start dates are at most
\* one calendar day apart": both are calendar dates, a day apart at most.
StartsClose(l, r) ==
    (Truthy(l.date_start) /\ Truthy(r.date_start)) =>
        /\ IsValidDate(l.date_start[1])
        /\ IsValidDate(r.date_start[1])
        /\ ToOrdinal(l.date_start[1]) - ToOrdinal(r.date_start[1]) \in {-1, 0, 1}

SameRaceAsClaimed(l, r) ==
    /\ Normalized(l.name) = Normalized(r.name)
    /\ BothOrMatch(l.city, r.city)
    /\ BothOrMatch(l.country, r.country)
    /\ BothOrMatch(Some(l.website_url.netloc), Some(r.website_url.netloc))
    /\ StartsClose(l, r)

\* C4 as stated: _is_same_race holds exactly when the names are equal after
\* normalizing and city, country, domain and start date agree where both
\* records have them; two such records given together come back as one.
C4_SameRaceAsClaimed ==
    /\ \A i, j \in DOMAIN races :
        _is_same_race(races[i], races[j]) <=> SameRaceAsClaimed(races[i], races[j])
    /\ (/\ Len(races) = 2
        /\ ~PastDated(races[1]) /\ ~PastDated(races[2])
        /\ SameRaceAsClaimed(races[1], races[2]))
       => Len(filtered) = 1

\* C4 amended: as C4, and the normalized names are not empty.
C4_SameRaceNamed ==
    /\ \A i, j \in DOMAIN races :
        _is_same_race(races[i], races[j])
        <=> (/\ Normalized(races[i].name) # <<>>
             /\ SameRaceAsClaimed(races[i], races[j]))
    /\ (/\ Len(races) = 2
        /\ ~PastDated(races[1]) /\ ~PastDated(races[2])
        /\ Normalized(races[1].name) # <<>>
        /\ SameRaceAsClaimed(races[1], races[2]))
       => Len(filtered) = 1

\* C4 witness: two records that differ in the case and spacing of the name and
\* by one day were given and came back as one.
C4_Witness ==
    /\ Len(races) = 2
    /\ races[1].name # races[2].name
    /\ races[1].date_start # races[2].date_start
    /\ _is_same_race(races[1], races[2])
    /\ Len(filtered) = 1

\* The step gave a record that is not past-dated and is the same race as a
\* record kept so far.
Incoming == races'[Len(races')]
KeptMatches == {i \in DOMAIN unique : _is_same_race(unique[i], Incoming)}
MergeStep ==
    /\ races' = Append(races, Incoming)
    /\ ~PastDated(Incoming)
    /\ KeptMatches # {}

MergeAsClaimed(kept, incoming) ==
    [kept EXCEPT
        !.last_seen_at = incoming.last_seen_at,
        !.last_verified_at =
            IF TruthyStr(incoming.last_verified_at) /\ ~TruthyStr(@)
            THEN incoming.last_verified_at ELSE @,
        !.website_url = IF @ = EmptyUrl THEN incoming.website_url ELSE @]

MergeAmended(kept, incoming) ==
    [kept EXCEPT
        !.last_seen_at = incoming.last_seen_at,
        !.last_verified_at =
            IF TruthyStr(incoming.last_verified_at)
            THEN incoming.last_verified_at ELSE @,
        !.website_url = IF @ = EmptyUrl THEN incoming.website_url ELSE @]

\* C5 as stated: a merge gives the kept record the incoming last_seen_at, the
\* incoming last_verified_at only when it had none, and the incoming
\* website_url only when its own was blank.
C5_MergeAsClaimed ==
    [][MergeStep =>
        \E i \in KeptMatches :
            unique' = [unique EXCEPT ![i] = MergeAsClaimed(@, Incoming)]]_vars

\* C5 amended: a merge gives the kept record the incoming last_seen_at, the
\* incoming last_verified_at whenever that is present and not empty, and the
\* incoming website_url only when its own was blank.
C5_MergeAmended ==
    [][MergeStep =>
        \E i \in KeptMatches :
            unique' = [unique EXCEPT ![i] = MergeAmended(@, Incoming)]]_vars

\* C5 witness: a record with a website and a verification time was merged into
\* a kept record that had a verification time and no website.
C5_Witness ==
    /\ Len(races) = 2
    /\ Len(unique) = 1
    /\ TruthyStr(races[1].last_verified_at)
    /\ TruthyStr(races[2].last_verified_at)
    /\ races[1].website_url = EmptyUrl
    /\ unique[1].website_url = races[2].website_url
    /\ unique[1].website_url # EmptyUrl

Frame(r) == <<r.name, r.date_start, r.date_end, r.city, r.region, r.country>>

\* The input is one group: records that are not past-dated and are pairwise
\* the same race.
OneGroup ==
    /\ Len(races) >= 2
    /\ \A i, j \in DOMAIN races :
        ~PastDated(races[i]) /\ _is_same_race(races[i], races[j])

\* C6: a step leaves the name, dates and location of every kept record as
\* they were, and the survivor of a group has those of the first record given.
C6_FrameKept ==
    /\ [][\A i \in DOMAIN unique :
            i \in DOMAIN unique' /\ Frame(unique'[i]) = Frame(unique[i])]_vars
    /\ [](OneGroup => Len(filtered) = 1 /\ Frame(filtered[1]) = Frame(races[1]))

\* C6 witness: a group whose later records differ from the first in name,
\* date and location came back as one record.
C6_Witness ==
    /\ OneGroup
    /\ Len(filtered) = 1
    /\ \E i \in DOMAIN races :
        /\ races[i].name # races[1].name
        /\ races[i].date_start # races[1].date_start
        /\ races[i].city # races[1].city
        /\ races[i].region # races[1].region

\* C7: the returned list is in start date order, equal dates in the order of
\* the lower-cased names, and a record without a start date follows every
\* record with one.
C7_SortedAsClaimed ==
    \A i, j \in DOMAIN filtered :
        i < j =>
            LET a == filtered[i]
                b == filtered[j]
                name_a == Codes(Lower(a.name))
                name_b == Codes(Lower(b.name))
            IN  /\ ~Truthy(a.date_start) => ~Truthy(b.date_start)
                /\ (Truthy(a.date_start) /\ Truthy(b.date_start)) =>
                      /\ ~LexLess(b.date_start[1], a.date_start[1])
                      /\ a.date_start = b.date_start => ~LexLess(name_b, name_a)
                /\ (~Truthy(a.date_start) /\ ~Truthy(b.date_start)) =>
                      ~LexLess(name_b, name_a)

-----------------------------------------------------------------------------
(* Claims about the snapshot, under SpecSnapshot *)

RaceFields ==
    {"name", "date_start", "date_end", "city", "region", "country", "lat", "lng",
     "distance_km", "website_url", "source", "source_event_id", "description",
     "entry_requirements", "last_seen_at", "last_verified_at", "status"}

\* The document is one store_races writes: each of its records has the
\* attributes of Race.
StoredByStoreRaces(document) ==
    \A i \in DOMAIN document.races : DOMAIN document.races[i] = RaceFields

RecordSet(document) == {document.races[i] : i \in DOMAIN document.races}

\* C8: the snapshot, when store_races wrote it, loaded and stored again at
\* once, gives a document with the same set of race records.
C8_RoundTrip ==
    (s3_object # None /\ StoredByStoreRaces(s3_object[1])) =>
        \A loaded_at, stored_at \in Clock :
            RecordSet(store_races(load_existing_races(s3_object, loaded_at), stored_at))
            = RecordSet(s3_object[1])

\* C8 witness: a snapshot of two different records was stored, loaded, and
\* stored again from what was loaded.
C8_Witness ==
    /\ s3_object # None
    /\ StoredByStoreRaces(s3_object[1])
    /\ Len(existing) = 2
    /\ existing[1] # existing[2]
    /\ \E i \in DOMAIN existing : existing[i].lat # None
    /\ \E now \in Clock : s3_object[1] = store_races(existing, now)
    /\ \E now \in Clock : existing = load_existing_races(s3_object, now)

-----------------------------------------------------------------------------
(* Claims about the extractors, under SpecExtract *)

\* C9: every extracted record's name has "marathon" in it and neither "half
\* marathon" nor "half-marathon", and a line that mentions a half marathon
\* gives no record.
C9_MarathonNames ==
    /\ \A i \in DOMAIN extracted :
        LET lowered == Lower(extracted[i].name)
        IN  /\ Contains(lowered, Marathon)
            /\ ~Contains(lowered, HalfMarathon)
            /\ ~Contains(lowered, HalfMarathonHyphen)
    /\ (/\ page # <<>>
        /\ \A i \in DOMAIN page :
             /\ page[i] \in PageLines
             /\ Contains(Lower(page[i].rest), HalfMarathon))
       => extracted = <<>>

-----------------------------------------------------------------------------
(* Claims about crawl_sources, under SpecCrawl *)

\* The queue is empty or max_pages URLs have been visited.
QueueEmptyOrBoundReached == queue = <<>> \/ Cardinality(visited) = max_pages

\* C10: the URLs fetched in one crawl are never more than max_pages; the
\* crawl returns only with its queue empty or max_pages URLs visited, and
\* from a state of either kind it fetches nothing more and returns.
C10_FetchesBounded ==
    /\ [](Len(fetches) <= max_pages)
    /\ [](crawl = "returned" => QueueEmptyOrBoundReached)
    /\ [][crawl = "loop" /\ QueueEmptyOrBoundReached
            => crawl' = "returned" /\ fetches' = fetches]_vars

\* A crawl that fetched max_pages URLs, two or more, and returned with URLs
\* left in its queue.
C10_Witness ==
    /\ crawl = "returned"
    /\ max_pages >= 2
    /\ Len(fetches) = max_pages
    /\ queue # <<>>
    /\ crawled # <<>>

\* A step that fetches a URL.
Fetched == fetches' # fetches

\* A step whose fetch fails: the fetch raises, whether or not _fetch_url
\* catches what is raised.
FetchFailed == Fetched /\ response' = None

\* C11: no URL is fetched twice in one crawl, and a step whose fetch fails
\* adds no record and no link and leaves the crawl in its loop, at the next
\* entry of the queue.
C11_FetchedOnceAndFailuresSkipped ==
    /\ [](\A i, j \in DOMAIN fetches : fetches[i] = fetches[j] => i = j)
    /\ [][FetchFailed
            => crawled' = crawled /\ queue' = Tail(queue) /\ crawl' = "loop"]_vars

\* A step whose fetch gets a response with a Content-Type that is not of HTML.
FetchedNonHtml ==
    Fetched /\ response' # None /\ IsNonHtml(response'[1].content_type)

\* C12: for a response whose Content-Type is not of HTML _fetch_url returns
\* nothing (None, or no text), and the step adds no record and no link.
C12_NonHtmlSkipped ==
    [][FetchedNonHtml
         => /\ ~Truthy(_fetch_url(response'))
            /\ crawled' = crawled
            /\ queue' = Tail(queue)]_vars

\* The path extensions of what is no HTML: a PDF, an image, an archive, a
\* calendar feed.
AssetExtensions == {<<".", "p", "d", "f">>, <<".", "j", "p", "g">>, <<".", "p", "n", "g">>, <<".", "g", "i", "f">>, <<".", "z", "i", "p">>, <<".", "i", "c", "s">>}

\* The path ends with one of those extensions, in any case.
HasAssetExtension(path) ==
    \E ext \in AssetExtensions :
        /\ Len(path) >= Len(ext)
        /\ Lower(SubSeq(path, Len(path) - Len(ext) + 1, Len(path))) = ext

\* The link is one the claim lets into the queue from the page of page_url.
LinkAsClaimed(link, page_url) ==
    /\ link.scheme \in {"http", "https"}
    /\ link.netloc = page_url.netloc
    /\ ~HasAssetExtension(link.path)
    /\ \E token \in {Marathon, <<"r", "a", "c", "e">>, <<"c", "a", "l", "e", "n", "d", "a", "r">>} : HrefContains(link, token)

\* C13: every link a step adds to the queue has the scheme http or https, the
\* host of the page it was found on, a path whose extension is not that of a
\* non-HTML asset, and one of the keywords "marathon", "race", "calendar".
C13_LinksQueuedAsClaimed ==
    [][Fetched
         => \A i \in Len(queue)..Len(queue') : LinkAsClaimed(queue'[i], Head(queue))]_vars

-----------------------------------------------------------------------------
(* Claims about lambda_handler and load_existing_races, under SpecHandler *)

C15_OneLoadOnePassOneStore ==
    /\ [](\A i \in Invocations :
            /\ handler[i].loads <= 1 /\ handler[i].passes <= 1 /\ handler[i].stores <= 1
            /\ handler[i].passes = 1 => handler[i].loads = 1
            /\ handler[i].stores = 1 => handler[i].passes = 1
            /\ handler[i].at = "returned"
                => handler[i].loads = 1 /\ handler[i].passes = 1 /\ handler[i].stores = 1)
    /\ [][s3_object' # s3_object
            => \E i \in Invocations :
                /\ handler[i].at = "computed"
                /\ handler'[i].at = "returned"
                /\ s3_object' = Some(store_races(handler[i].filtered, "n1"))]_vars

\* The records of the snapshot under the key.
Snapshot == load_existing_races(s3_object, "n1")

\* Lost update: both invocations have returned, each after one load and one
\* store, and the snapshot lacks a record that one of them stored.
C15_Witness ==
    \E i \in Invocations, j \in Invocations :
        /\ i # j
        /\ handler[i].at = "returned" /\ handler[j].at = "returned"
        /\ handler[i].stores = 1 /\ handler[j].stores = 1
        /\ \E k \in DOMAIN handler[i].filtered :
            \A m \in DOMAIN Snapshot : Snapshot[m].name # handler[i].filtered[k].name

-----------------------------------------------------------------------------
(* Claim about the returned list as a whole, under SpecDedupe *)

\* C16: no two distinct records of the returned list are the same race by
\* _is_same_race, taken on the fields the records have when the list is
\* returned, that is after every merge into them.
C16_NoTwoReturnedSameRace ==
    \A i \in DOMAIN filtered, j \in DOMAIN filtered :
        i # j => ~_is_same_race(filtered[i], filtered[j])

\* Two or more records were returned and one of them is a given record that a
\* merge has changed: it got its website_url from a later record.
C16_Witness ==
    /\ Len(filtered) >= 2
    /\ \E i \in DOMAIN filtered, k \in DOMAIN races :
        /\ races[k].website_url = EmptyUrl
        /\ filtered[i].website_url # EmptyUrl
        /\ filtered[i] = [races[k] EXCEPT
                            !.website_url = filtered[i].website_url,
                            !.last_seen_at = filtered[i].last_seen_at,
                            !.last_verified_at = filtered[i].last_verified_at]

====
